---- MODULE Spec2Model ----
(***************************************************************************)
(* A model of the two browser scripts of the site:                         *)
(*   scripts/navbar.js       the Navbar Loader (fetch the homepage, take   *)
(*                           its nav.navbar out, inject it in a            *)
(*                           placeholder, fall back on failure,            *)
(*                           reinitialise framework widgets after a delay) *)
(*   scripts/burger-menu.js  the Menu Toggle (three click handlers over a  *)
(*                           class on the panel and an attribute on the    *)
(*                           toggle control)                               *)
(* Strings that the code takes apart (the URL path, the homepage path) are *)
(* sequences of tokens; markup is a sequence of element records.           *)
(***************************************************************************)
EXTENDS Naturals, Integers, Sequences, FiniteSets, TLC

VARIABLES
    NAVBAR_CONFIG,   \* the configuration record of navbar.js
    pathname,        \* window.location.pathname, a sequence of characters
    title,           \* document.title, a sequence of characters
    HOMEPAGE_URL,    \* the const of navbar.js:76; <<>> before the script ran
    body,            \* the page's own markup outside the placeholder
    placeholder,     \* [exists, innerHTML]: the element #navbar-placeholder
    navbarScript,    \* "pending" | "registered": evaluation of navbar.js
    domReady,        \* whether DOMContentLoaded has fired
    chain,           \* position of the fetch/then/then/catch promise chain
    response,        \* the Response the fetch resolved with
    html,            \* the parsed body of the response
    extraction,      \* where in the fetched document the injected element stood
    error,           \* the rejection reason travelling down the chain
    console,         \* what was logged, in order
    fetchLog,        \* the URLs fetch was called with, in order
    writes,          \* who assigned placeholder.innerHTML, in order
    timer,           \* "none" | "scheduled" | "fired": the setTimeout callback
    reinit,          \* what reinitializeFrameworkComponents did
    burgerScript,    \* evaluation of burger-menu.js and what it bound
    show,            \* navCollapse.classList contains 'show'
    ariaExpanded,    \* burger's aria-expanded attribute ("none" when absent)
    display,         \* navCollapse.style.display
    lastClick,       \* the last click dispatched: target, state before/after
    toggleRun        \* toggle clicks in a row since a collapsed state (-1: n/a)

loaderVars == <<NAVBAR_CONFIG, pathname, title, HOMEPAGE_URL, body, placeholder,
                navbarScript, domReady, chain, response, html, extraction, error, console,
                fetchLog, writes, timer, reinit, burgerScript>>

menuVars == <<show, ariaExpanded, display, lastClick, toggleRun>>

vars == <<NAVBAR_CONFIG, pathname, title, HOMEPAGE_URL, body, placeholder,
          navbarScript, domReady, chain, response, html, extraction, error, console,
          fetchLog, writes, timer, reinit, burgerScript,
          show, ariaExpanded, display, lastClick, toggleRun>>

----------------------------------------------------------------------------
(* Bounds of the model *)

\* longest window.location.pathname, in characters
MaxPathLen == 6

\* most top-level elements in a fetched document
MaxDocLen == 2

\* most toggle clicks counted in a row
MaxClicks == 4

\* longest document.title, in characters
MaxTitleLen == 5

----------------------------------------------------------------------------
(* Strings *)

Max(a, b) == IF a >= b THEN a ELSE b

Repeat(tok, n) == [i \in 1..n |-> tok]

\* the sentinel of NAVBAR_CONFIG.HOMEPAGE_PATH
Auto == <<"auto">>

\* every pathname of a page: it starts with the separator
PathChars == {"/", "a"}

RECURSIVE SeqsOver(_, _)
SeqsOver(S, n) ==
    IF n = 0 THEN {<<>>}
    ELSE LET shorter == SeqsOver(S, n - 1)
         IN  shorter \cup {Append(s, c) : s \in {t \in shorter : Len(t) = n - 1}, c \in S}

AllPaths == {<<"/">> \o s : s \in SeqsOver(PathChars, MaxPathLen - 1)}

\* path.replace(/\/[^\/]*$/, ''): the leftmost place where a separator is
\* followed by non-separators only, up to the end, is cut off with its tail
StripFinalSegment(path) ==
    LET matches == {i \in DOMAIN path :
                       /\ path[i] = "/"
                       /\ \A j \in DOMAIN path : j > i => path[j] # "/"}
    IN  IF matches = {} THEN path
        ELSE LET first == CHOOSE i \in matches : \A k \in matches : i <= k
             IN  SubSeq(path, 1, first - 1)

\* (pathWithoutFile.match(/\//g) || []).length
CountSeparators(p) == Cardinality({i \in DOMAIN p : p[i] = "/"})

getHomepagePathOneUp(cfg, path) ==
    IF cfg.HOMEPAGE_PATH # Auto THEN cfg.HOMEPAGE_PATH
    ELSE <<"../", "index.html">>

getHomepagePathNoClamp(cfg, path) ==
    IF cfg.HOMEPAGE_PATH # Auto THEN cfg.HOMEPAGE_PATH
    ELSE Repeat("../", CountSeparators(StripFinalSegment(path))) \o <<"index.html">>

getHomepagePath(cfg, path) ==
    IF cfg.HOMEPAGE_PATH # Auto THEN cfg.HOMEPAGE_PATH
    ELSE LET pathWithoutFile == StripFinalSegment(path)
             depth == CountSeparators(pathWithoutFile)
         IN  Repeat("../", Max(depth, 1)) \o <<"index.html">>

\* document.title is made of letters, spaces, the separator and '<'
TitleChars == {"M", " ", "-", "<"}

AllTitles == SeqsOver(TitleChars, MaxTitleLen)

\* a title like "MySite - Home"
HomeTitle == <<"M", " ", "-", " ", "M">>

\* title.split('-')[0]: what stands before the first separator, the whole
\* title when there is none
SplitFirst(t) ==
    LET seps == {i \in DOMAIN t : t[i] = "-"}
    IN  IF seps = {} THEN t
        ELSE SubSeq(t, 1, (CHOOSE i \in seps : \A k \in seps : i <= k) - 1)

\* s.trim()
Trim(s) ==
    LET inked == {i \in DOMAIN s : s[i] # " "}
    IN  IF inked = {} THEN <<>>
        ELSE SubSeq(s, CHOOSE i \in inked : \A k \in inked : i <= k,
                       CHOOSE i \in inked : \A k \in inked : i >= k)

\* the label showFallbackNavbar falls back on
DefaultSiteName == <<"Site">>

\* document.title.split('-')[0].trim() || 'Site'
siteName(t) ==
    IF Trim(SplitFirst(t)) = <<>> THEN DefaultSiteName ELSE Trim(SplitFirst(t))

\* the text of the brand link once the template, ${siteName} put in as it is,
\* went through the HTML parser of innerHTML: a '<' with a letter after it
\* opens a tag, and the link's text ends there; any other '<' is text
BrandText(label) ==
    LET opens == {i \in DOMAIN label :
                     label[i] = "<" /\ i < Len(label) /\ label[i + 1] = "M"}
    IN  IF opens = {} THEN label
        ELSE SubSeq(label, 1, (CHOOSE i \in opens : \A k \in opens : i <= k) - 1)

\* the directory of a page: its path up to and with the last separator
DirOf(path) ==
    SubSeq(path, 1, CHOOSE i \in DOMAIN path :
                        path[i] = "/" /\ \A j \in DOMAIN path : j > i => path[j] # "/")

\* one '..' step of URL resolution: the last segment of the directory goes,
\* and at the root nothing does
ParentDir(dir) ==
    IF Len(dir) <= 1 THEN dir
    ELSE DirOf(SubSeq(dir, 1, Len(dir) - 1))

RECURSIVE ParentDirs(_, _)
ParentDirs(dir, n) == IF n = 0 THEN dir ELSE ParentDirs(ParentDir(dir), n - 1)

\* the URL path that fetch(rel) requests from a page at `path`, rel being
\* '../' steps and a file name
ResolveURL(rel, path) ==
    LET ups == Cardinality({i \in DOMAIN rel : rel[i] = "../"})
    IN  ParentDirs(DirOf(path), ups) \o SubSeq(rel, ups + 1, Len(rel))

----------------------------------------------------------------------------
(* Markup: an element is [tag, cls, href, brand, kids]; kids names the    *)
(* parts inside it, brand is the text of its brand link                   *)

NavMain  == [tag |-> "nav", cls |-> {"navbar"}, href |-> <<>>, brand |-> <<>>,
             kids |-> <<"navbar-toggler", "dropdown-toggle", "navbarNav", "nav-link">>]
NavAlt   == [tag |-> "nav", cls |-> {"navbar", "alt"}, href |-> <<>>, brand |-> <<>>,
             kids |-> <<"nav-link">>]
NavPlain == [tag |-> "nav", cls |-> {}, href |-> <<>>, brand |-> <<>>, kids |-> <<>>]
DivBar   == [tag |-> "div", cls |-> {"navbar"}, href |-> <<>>, brand |-> <<>>,
             kids |-> <<"nav-link">>]
Heading  == [tag |-> "h1", cls |-> {}, href |-> <<>>, brand |-> <<>>, kids |-> <<>>]
\* a menu whose container carries no navbar class
HeaderMenu == [tag |-> "header", cls |-> {}, href |-> <<>>, brand |-> <<>>,
               kids |-> <<"navbar-toggler", "navbarNav", "nav-link">>]

ElementPool == {NavMain, NavAlt, NavPlain, DivBar, Heading, HeaderMenu}

\* the <nav> that showFallbackNavbar writes: classes navbar ..., no toggler
FallbackNav(homePath, label) ==
    [tag |-> "nav", cls |-> {"navbar", "navbar-expand-lg", "navbar-dark", "sticky-top"},
     kids |-> <<"navbar-brand", "Navigation temporarily unavailable">>,
     href |-> homePath, brand |-> label]

Docs == SeqsOver(ElementPool, MaxDocLen)

\* NAVBAR_CONFIG.NAVBAR_SELECTOR
NAVBAR_SELECTOR == "nav.navbar"

\* whether element e matches a selector the scripts use; '.navbar-toggler' is
\* matched by the element that holds the toggler
Matches(e, sel) ==
    CASE sel = "nav.navbar"      -> e.tag = "nav" /\ "navbar" \in e.cls
      [] sel = "nav"             -> e.tag = "nav"
      [] sel = ".navbar"         -> "navbar" \in e.cls
      [] sel = ".navbar-toggler" -> \E k \in DOMAIN e.kids : e.kids[k] = "navbar-toggler"

\* querySelector(sel): the index of the first match in document order, 0 for null
querySelector(doc, sel) ==
    LET hits == {i \in DOMAIN doc : Matches(doc[i], sel)}
    IN  IF hits = {} THEN 0 ELSE CHOOSE i \in hits : \A k \in hits : i <= k

innerHTMLOf(e) ==
    [k \in DOMAIN e.kids |->
        [tag |-> e.kids[k], cls |-> {}, href |-> <<>>, brand |-> <<>>, kids |-> <<>>]]

\* element.outerHTML: the element itself with all it holds
outerHTML(e) == <<e>>

\* the whole document in order: the page's own markup, then the placeholder's
Document == body \o (IF placeholder.exists THEN placeholder.innerHTML ELSE <<>>)

HasPart(doc, name) == \E i \in DOMAIN doc : \E k \in DOMAIN doc[i].kids : doc[i].kids[k] = name

----------------------------------------------------------------------------
(* Values of the promise chain *)

NoResponse == [status |-> 0, statusText |-> ""]

Responses == {[status |-> 200, statusText |-> "OK"],
              [status |-> 204, statusText |-> "No Content"],
              [status |-> 404, statusText |-> "Not Found"],
              [status |-> 500, statusText |-> "Internal Server Error"]}

\* Response.ok
Ok(r) == r.status >= 200 /\ r.status <= 299

NoError == [kind |-> "none", prefix |-> "", status |-> 0, text |-> ""]

\* the TypeError a fetch (or a body read) rejects with when the network fails
NetworkError == [kind |-> "network", prefix |-> "TypeError", status |-> 0,
                 text |-> "Failed to fetch"]

\* new Error(`HTTP ${response.status}: ${response.statusText}`)
HttpError(r) == [kind |-> "http", prefix |-> "HTTP", status |-> r.status,
                 text |-> r.statusText]

\* new Error(`Navbar not found using selector: ${NAVBAR_CONFIG.NAVBAR_SELECTOR}`)
SelectorError == [kind |-> "selector", prefix |-> "Navbar not found using selector",
                  status |-> 0, text |-> "nav.navbar"]

\* an exception out of a host function the success handler calls
HostError(site) == [kind |-> "host", prefix |-> site, status |-> 0, text |-> "threw"]

Log(level, text, err) == [level |-> level, text |-> text, err |-> err]

NoReinit == [ran |-> FALSE, attempted |-> {}, threw |-> {}, present |-> {},
             aborted |-> FALSE, events |-> <<>>]

\* nothing was taken out of a fetched document
NoExtraction == [first |-> 0, len |-> 0]

NotEvaluated == [state |-> "pending", burger |-> "null", navCollapse |-> "null",
                 injectedAtInit |-> FALSE]

NoClick == [part |-> "none", el |-> 0, inNavbar |-> FALSE,
            before |-> [show |-> FALSE, aria |-> "none", display |-> ""],
            threw |-> FALSE]

----------------------------------------------------------------------------
(* navbar.js *)

\* top level of navbar.js: the configuration is read, HOMEPAGE_URL is computed
\* and the DOMContentLoaded listener is registered
EvalNavbarScript ==
    /\ navbarScript = "pending"
    /\ navbarScript' = "registered"
    /\ HOMEPAGE_URL' = getHomepagePath(NAVBAR_CONFIG, pathname)
    /\ UNCHANGED <<NAVBAR_CONFIG, pathname, title, extraction,
                   body, placeholder, domReady, chain,
                   response, html, error, console, fetchLog, writes, timer,
                   reinit, burgerScript>>
    /\ UNCHANGED menuVars

\* the guard of the listener: no placeholder, or a <nav> already inside it
GuardReturnsOnlyAbsent(ph) == ~ph.exists

GuardReturns(ph) ==
    \/ ~ph.exists
    \/ querySelector(ph.innerHTML, "nav") # 0

\* the listener up to the call of fetch
LoadHandler ==
    IF GuardReturns(placeholder)
    THEN /\ chain' = "skipped"
         /\ UNCHANGED <<console, fetchLog>>
    ELSE /\ console' = Append(console, Log("log", "Loading navbar from:", NoError))
         /\ fetchLog' = Append(fetchLog, HOMEPAGE_URL)
         /\ chain' = "fetching"

\* the browser fires DOMContentLoaded once; a listener registered by then runs
DOMContentLoaded ==
    /\ ~domReady
    /\ domReady' = TRUE
    /\ IF navbarScript = "registered"
       THEN LoadHandler
       ELSE UNCHANGED <<chain, console, fetchLog>>
    /\ UNCHANGED <<NAVBAR_CONFIG, pathname, title, extraction,
                   HOMEPAGE_URL, body, placeholder,
                   navbarScript, response, html, error, writes, timer, reinit,
                   burgerScript>>
    /\ UNCHANGED menuVars

FetchSettlesOrTimesOut ==
    /\ chain = "fetching"
    /\ \E outcome \in {"response", "failure", "timeout"} :
          IF outcome = "response"
          THEN \E r \in Responses :
                  /\ response' = r
                  /\ chain' = "response"
                  /\ UNCHANGED error
          ELSE /\ error' = IF outcome = "failure" THEN NetworkError
                           ELSE [NetworkError EXCEPT !.kind = "timeout"]
               /\ chain' = "rejected"
               /\ UNCHANGED response
    /\ UNCHANGED <<NAVBAR_CONFIG, pathname, title, extraction,
                   HOMEPAGE_URL, body, placeholder,
                   navbarScript, domReady, html, console, fetchLog, writes,
                   timer, reinit, burgerScript>>
    /\ UNCHANGED menuVars

\* the request settles: a response of any status, or a network failure
FetchSettles ==
    /\ chain = "fetching"
    /\ \E ok \in BOOLEAN :
          IF ok
          THEN \E r \in Responses :
                  /\ response' = r
                  /\ chain' = "response"
                  /\ UNCHANGED error
          ELSE /\ error' = NetworkError
               /\ chain' = "rejected"
               /\ UNCHANGED response
    /\ UNCHANGED <<NAVBAR_CONFIG, pathname, title, extraction,
                   HOMEPAGE_URL, body, placeholder,
                   navbarScript, domReady, html, console, fetchLog, writes,
                   timer, reinit, burgerScript>>
    /\ UNCHANGED menuVars

\* .then(response => ...): the status check, then the body is read
ResponseHandler ==
    /\ chain = "response"
    /\ IF ~Ok(response)
       THEN /\ error' = HttpError(response)
            /\ chain' = "rejected"
       ELSE /\ chain' = "reading"
            /\ UNCHANGED error
    /\ UNCHANGED <<NAVBAR_CONFIG, pathname, title, extraction,
                   HOMEPAGE_URL, body, placeholder,
                   navbarScript, domReady, response, html, console, fetchLog,
                   writes, timer, reinit, burgerScript>>
    /\ UNCHANGED menuVars

\* response.text() settles; DOMParser never throws, so any text is a document
TextSettles ==
    /\ chain = "reading"
    /\ \E ok \in BOOLEAN :
          IF ok
          THEN \E doc \in Docs :
                  /\ html' = doc
                  /\ chain' = "html"
                  /\ UNCHANGED error
          ELSE /\ error' = NetworkError
               /\ chain' = "rejected"
               /\ UNCHANGED html
    /\ UNCHANGED <<NAVBAR_CONFIG, pathname, title, extraction,
                   HOMEPAGE_URL, body, placeholder,
                   navbarScript, domReady, response, console, fetchLog, writes,
                   timer, reinit, burgerScript>>
    /\ UNCHANGED menuVars

\* the places of the success handler, after the assignment, that call into the
\* host: an exception there rejects the promise that .catch is chained on
HostFaults == {"none", "console.log", "setTimeout"}

\* .then(html => ...): parse, select, inject, schedule the reinitialisation;
\* the parsed document is local to the handler and is gone when it returns
SuccessHandler ==
    /\ chain = "html"
    /\ html' = <<>>
    /\ \E hostFault \in HostFaults :
          LET i == querySelector(html, NAVBAR_SELECTOR)
          IN  IF i = 0
              THEN /\ error' = SelectorError
                   /\ chain' = "rejected"
                   /\ UNCHANGED <<placeholder, extraction, writes, console, timer>>
              ELSE /\ placeholder' = [placeholder EXCEPT !.innerHTML = outerHTML(html[i])]
                   /\ extraction' = [first |-> i, len |-> Len(html)]
                   /\ writes' = Append(writes, "success")
                   /\ IF hostFault = "console.log"
                      THEN /\ error' = HostError("console.log")
                           /\ chain' = "rejected"
                           /\ UNCHANGED <<console, timer>>
                      ELSE /\ console' = Append(console,
                                  Log("log", "Navbar loaded successfully", NoError))
                           /\ IF hostFault = "setTimeout"
                              THEN /\ error' = HostError("setTimeout")
                                   /\ chain' = "rejected"
                                   /\ UNCHANGED timer
                              ELSE /\ timer' = "scheduled"
                                   /\ chain' = "fulfilled"
                                   /\ UNCHANGED error
    /\ UNCHANGED <<NAVBAR_CONFIG, pathname, title, HOMEPAGE_URL, body, navbarScript,
                   domReady, response, fetchLog, reinit, burgerScript>>
    /\ UNCHANGED menuVars

\* showFallbackNavbar(placeholder): what it leaves in the placeholder
showFallbackNavbar(ph) ==
    LET homePath == IF HOMEPAGE_URL # <<>> THEN HOMEPAGE_URL ELSE <<"../", "index.html">>
    IN  [ph EXCEPT !.innerHTML = <<FallbackNav(homePath, BrandText(siteName(title)))>>]

FallbackInfo ==
    <<Log("info", "Fallback navbar displayed.", NoError),
      Log("info", "Attempted to load from:", NoError),
      Log("info", "Check that the path is correct and you are running on a web server.",
          NoError)>>

\* .catch(error => ...): chained after both handlers
CatchAlwaysFallback ==
    /\ chain = "rejected"
    /\ chain' = "caught"
    /\ placeholder' = showFallbackNavbar(placeholder)
    /\ writes' = Append(writes, "fallback")
    /\ console' = Append(console, Log("error", "Error loading navbar:", error)) \o FallbackInfo
    /\ UNCHANGED <<NAVBAR_CONFIG, pathname, title, extraction,
                   HOMEPAGE_URL, body, navbarScript,
                   domReady, response, html, error, fetchLog, timer, reinit,
                   burgerScript>>
    /\ UNCHANGED menuVars

CatchNeverFallback ==
    /\ chain = "rejected"
    /\ chain' = "caught"
    /\ console' = Append(console, Log("error", "Error loading navbar:", error))
    /\ UNCHANGED <<NAVBAR_CONFIG, pathname, title, extraction,
                   HOMEPAGE_URL, body, placeholder,
                   navbarScript, domReady, response, html, error, fetchLog, writes,
                   timer, reinit, burgerScript>>
    /\ UNCHANGED menuVars

CatchReinitializes ==
    /\ chain = "rejected"
    /\ chain' = "caught"
    /\ placeholder' = showFallbackNavbar(placeholder)
    /\ writes' = Append(writes, "fallback")
    /\ console' = Append(console, Log("error", "Error loading navbar:", error)) \o FallbackInfo
    /\ timer' = "scheduled"
    /\ UNCHANGED <<NAVBAR_CONFIG, pathname, title, extraction,
                   HOMEPAGE_URL, body, navbarScript,
                   domReady, response, html, error, fetchLog, reinit,
                   burgerScript>>
    /\ UNCHANGED menuVars

CatchRetries ==
    /\ chain = "rejected"
    /\ chain' = "fetching"
    /\ fetchLog' = Append(fetchLog, HOMEPAGE_URL)
    /\ console' = Append(console, Log("error", "Error loading navbar:", error))
    /\ UNCHANGED <<NAVBAR_CONFIG, pathname, title, extraction,
                   HOMEPAGE_URL, body, placeholder,
                   navbarScript, domReady, response, html, error, writes,
                   timer, reinit, burgerScript>>
    /\ UNCHANGED menuVars

CatchHandler ==
    /\ chain = "rejected"
    /\ chain' = "caught"
    /\ IF NAVBAR_CONFIG.SHOW_FALLBACK
       THEN /\ placeholder' = showFallbackNavbar(placeholder)
            /\ writes' = Append(writes, "fallback")
            /\ console' = Append(console, Log("error", "Error loading navbar:", error))
                             \o FallbackInfo
       ELSE /\ console' = Append(console, Log("error", "Error loading navbar:", error))
            /\ UNCHANGED <<placeholder, writes>>
    /\ UNCHANGED <<NAVBAR_CONFIG, pathname, title, extraction,
                   HOMEPAGE_URL, body, navbarScript,
                   domReady, response, html, error, fetchLog, timer, reinit,
                   burgerScript>>
    /\ UNCHANGED menuVars

----------------------------------------------------------------------------
(* reinitializeFrameworkComponents *)

Frameworks == {"bootstrap", "Foundation", "M", "jQuery"}

\* the probes in the order the function makes them
ProbeOrder == <<"dropdown", "collapse", "foundation", "materialize", "jquery">>

Probes == {ProbeOrder[i] : i \in DOMAIN ProbeOrder}

\* the probes whose call stands inside a try/catch
Guarded == {"dropdown", "collapse"}

\* the burger script took data-bs-toggle off the toggler it found in the placeholder
TogglerAttrsRemoved == burgerScript.state = "bound" /\ burgerScript.burger = "placeholder"

\* whether the probe's call is reached: its global is there and, for the two
\* Bootstrap probes, container.querySelectorAll finds an element to build on
Applies(p, container, present) ==
    CASE p = "dropdown"    -> /\ "bootstrap" \in present
                              /\ HasPart(container.innerHTML, "dropdown-toggle")
      [] p = "collapse"    -> /\ "bootstrap" \in present
                              /\ HasPart(container.innerHTML, "navbar-toggler")
                              /\ ~TogglerAttrsRemoved
      [] p = "foundation"  -> "Foundation" \in present
      [] p = "materialize" -> "M" \in present
      [] p = "jquery"      -> "jQuery" \in present

NavbarLoadedEvent == [type |-> "navbarLoaded", target |-> "navbar-placeholder",
                      bubbles |-> TRUE, detail |-> "navbar-placeholder"]

JQueryEvent == [type |-> "navbar-loaded", target |-> "navbar-placeholder",
                bubbles |-> TRUE, detail |-> ""]

\* the run of the function when the globals in `present` exist and the probes in
\* `throwing` throw: an exception outside a try/catch ends the function
reinitializeFrameworkComponents(container, present, throwing) ==
    LET applies(i) == Applies(ProbeOrder[i], container, present)
        fatal == {i \in DOMAIN ProbeOrder :
                     /\ applies(i)
                     /\ ProbeOrder[i] \in throwing
                     /\ ProbeOrder[i] \notin Guarded}
        stop == IF fatal = {} THEN Len(ProbeOrder)
                ELSE CHOOSE i \in fatal : \A k \in fatal : i <= k
        attempted == {ProbeOrder[i] : i \in {k \in 1..stop : applies(k)}}
    IN  [ran |-> TRUE,
         present |-> present,
         attempted |-> attempted,
         threw |-> attempted \cap throwing,
         aborted |-> fatal # {},
         events |-> IF fatal # {} THEN <<>>
                    ELSE (IF "jquery" \in attempted THEN <<JQueryEvent>> ELSE <<>>)
                            \o <<NavbarLoadedEvent>>]

\* console.warn of the two guarded probes, in order
Warnings(r) ==
    (IF "dropdown" \in r.threw
        THEN <<Log("warn", "Could not initialize dropdown:", NoError)>> ELSE <<>>)
    \o (IF "collapse" \in r.threw
        THEN <<Log("warn", "Could not initialize collapse:", NoError)>> ELSE <<>>)

IntervalFires ==
    /\ timer = "scheduled"
    /\ timer' = "scheduled"
    /\ \E present \in SUBSET Frameworks, throwing \in SUBSET Probes :
          /\ reinit' = reinitializeFrameworkComponents(placeholder, present, throwing)
          /\ console' = console \o Warnings(reinit')
    /\ Len(console') <= 6
    /\ UNCHANGED <<NAVBAR_CONFIG, pathname, title, extraction,
                   HOMEPAGE_URL, body, placeholder,
                   navbarScript, domReady, chain, response, html, error, fetchLog,
                   writes, burgerScript>>
    /\ UNCHANGED menuVars

\* the setTimeout callback runs after REINIT_DELAY
TimerFires ==
    /\ timer = "scheduled"
    /\ timer' = "fired"
    /\ \E present \in SUBSET Frameworks, throwing \in SUBSET Probes :
          /\ reinit' = reinitializeFrameworkComponents(placeholder, present, throwing)
          /\ console' = console \o Warnings(reinit')
    /\ UNCHANGED <<NAVBAR_CONFIG, pathname, title, extraction,
                   HOMEPAGE_URL, body, placeholder,
                   navbarScript, domReady, chain, response, html, error, fetchLog,
                   writes, burgerScript>>
    /\ UNCHANGED menuVars

----------------------------------------------------------------------------
(* burger-menu.js *)

\* where a part is first found in the document: "body", "placeholder" or "null"
Find(name) ==
    IF HasPart(body, name) THEN "body"
    ELSE IF placeholder.exists /\ HasPart(placeholder.innerHTML, name) THEN "placeholder"
    ELSE "null"

\* the fetched navigation is what the placeholder holds
Injected == writes # <<>> /\ writes[Len(writes)] = "success"

\* top level of burger-menu.js: look the two elements up, take the Bootstrap
\* attributes off the toggler (a TypeError when there is none ends the script),
\* bind the three handlers
EvalBurgerScript ==
    /\ burgerScript.state = "pending"
    /\ LET b == Find("navbar-toggler")
           n == Find("navbarNav")
       IN  burgerScript' = [state |-> IF b = "null" THEN "threw" ELSE "bound",
                            burger |-> b,
                            navCollapse |-> n,
                            injectedAtInit |-> Injected]
    /\ UNCHANGED <<NAVBAR_CONFIG, pathname, title, extraction,
                   HOMEPAGE_URL, body, placeholder,
                   navbarScript, domReady, chain, response, html, error, console,
                   fetchLog, writes, timer, reinit>>
    /\ UNCHANGED menuVars

\* document.querySelector('.navbar'): index in the document, 0 for null
NavbarAt == querySelector(Document, ".navbar")

\* the element that holds the toggler the script bound
BurgerAt == querySelector(Document, ".navbar-toggler")

\* what a click can hit: a part of an element of the document, or (el = 0) the
\* page around them
ClickTargets ==
    {[el |-> 0, part |-> "other"]}
    \cup {[el |-> i, part |-> "other"] : i \in DOMAIN Document}
    \cup {[el |-> i, part |-> "navbar-toggler"] : i \in {BurgerAt} \ {0}}
    \cup {[el |-> i, part |-> "nav-link"] :
             i \in {k \in DOMAIN Document : HasPart(<<Document[k]>>, "nav-link")}}

\* navbar.contains(e.target), for a navbar that is not null
Contains(t) == t.el # 0 /\ t.el = NavbarAt

Menu == [show |-> show, aria |-> ariaExpanded, display |-> display]

Collapse(m) == [m EXCEPT !.show = FALSE, !.aria = "false"]

BurgerHandlerHides(m) ==
    IF m.aria = "true"
    THEN [m EXCEPT !.show = FALSE, !.aria = "false", !.display = ""]
    ELSE [m EXCEPT !.display = "block", !.show = TRUE, !.aria = "true"]

BurgerHandlerNoAttr(m) ==
    IF m.aria = "true"
    THEN [m EXCEPT !.show = FALSE]
    ELSE [m EXCEPT !.display = "block", !.show = TRUE]

\* burger.addEventListener('click', ...)
BurgerHandler(m) ==
    IF m.aria = "true"
    THEN [m EXCEPT !.show = FALSE, !.aria = "false"]
    ELSE [m EXCEPT !.display = "block", !.show = TRUE, !.aria = "true"]

LinkHandlerNoop(m) == m

\* link.addEventListener('click', ...) of every .nav-link
LinkHandler(m) == [m EXCEPT !.show = FALSE, !.aria = "false"]

\* the document handler dereferences a null navbar when the panel is shown
DocumentHandlerThrows(m) == m.show /\ NavbarAt = 0

DocumentHandlerAlways(m, t) == IF m.show THEN Collapse(m) ELSE m

\* document.addEventListener('click', ...)
DocumentHandler(m, t) ==
    IF m.show /\ NavbarAt # 0 /\ ~Contains(t)
    THEN [m EXCEPT !.show = FALSE, !.aria = "false"]
    ELSE m

IsCollapsed(m) == ~m.show /\ m.aria # "true"

IsExpanded(m) == m.show /\ m.aria = "true"

\* one click: the handler bound on the target runs, then, the event bubbling,
\* the document's
Click(t) ==
    LET m1 == CASE t.part = "navbar-toggler" -> BurgerHandler(Menu)
                [] t.part = "nav-link"       -> LinkHandler(Menu)
                [] OTHER                     -> Menu
        m2 == DocumentHandler(m1, t)
    IN  /\ show' = m2.show
        /\ ariaExpanded' = m2.aria
        /\ display' = m2.display
        /\ lastClick' = [part |-> t.part, el |-> t.el, inNavbar |-> Contains(t),
                         before |-> Menu, threw |-> DocumentHandlerThrows(m1)]
        /\ toggleRun' = IF t.part = "navbar-toggler" /\ toggleRun >= 0
                        THEN toggleRun + 1
                        ELSE IF IsCollapsed(m2) THEN 0 ELSE -1

ClickToggle ==
    /\ burgerScript.state = "bound"
    /\ toggleRun < MaxClicks
    /\ \E t \in {c \in ClickTargets : c.part = "navbar-toggler"} : Click(t)
    /\ UNCHANGED loaderVars

ClickLink ==
    /\ burgerScript.state = "bound"
    /\ \E t \in {c \in ClickTargets : c.part = "nav-link"} : Click(t)
    /\ UNCHANGED loaderVars

ClickElsewhere ==
    /\ burgerScript.state = "bound"
    /\ \E t \in {c \in ClickTargets : c.part = "other"} : Click(t)
    /\ UNCHANGED loaderVars

----------------------------------------------------------------------------
(* The page load: both scripts, DOMContentLoaded, the fetch, the timer *)

Configs == [HOMEPAGE_PATH : {Auto, <<"/index.html">>}, SHOW_FALLBACK : BOOLEAN]

\* pages one and two directories deep
LoadPaths == {<<"/", "a", "/", "a">>, <<"/", "a", "/", "a", "/", "a">>}

Placeholders == {[exists |-> FALSE, innerHTML |-> <<>>]}
                \cup {[exists |-> TRUE, innerHTML |-> h] :
                         h \in {<<>>, <<Heading>>, <<NavPlain>>, <<NavMain>>}}

Collapsed ==
    /\ show = FALSE
    /\ ariaExpanded = "false"
    /\ display = ""
    /\ lastClick = NoClick
    /\ toggleRun = 0

NotLoaded ==
    /\ HOMEPAGE_URL = <<>>
    /\ navbarScript = "pending"
    /\ domReady = FALSE
    /\ chain = "idle"
    /\ response = NoResponse
    /\ html = <<>>
    /\ extraction = NoExtraction
    /\ error = NoError
    /\ console = <<>>
    /\ fetchLog = <<>>
    /\ writes = <<>>
    /\ timer = "none"
    /\ reinit = NoReinit
    /\ burgerScript = NotEvaluated

Init ==
    /\ NAVBAR_CONFIG \in Configs
    /\ pathname \in LoadPaths
    /\ title = HomeTitle
    /\ body \in {<<>>, <<NavMain>>}
    /\ placeholder \in Placeholders
    /\ NotLoaded
    /\ Collapsed

Next ==
    \/ EvalNavbarScript
    \/ EvalBurgerScript
    \/ DOMContentLoaded
    \/ FetchSettles
    \/ ResponseHandler
    \/ TextSettles
    \/ SuccessHandler
    \/ CatchHandler
    \/ TimerFires

Spec == Init /\ [][Next]_vars

----------------------------------------------------------------------------
(* The depth-to-path computation over every pathname: an empty placeholder *)
(* on a page without markup of its own, the pathname drawn from AllPaths   *)

InitPath ==
    /\ NAVBAR_CONFIG \in Configs
    /\ pathname \in AllPaths
    /\ title = HomeTitle
    /\ body = <<>>
    /\ placeholder = [exists |-> TRUE, innerHTML |-> <<>>]
    /\ NotLoaded
    /\ Collapsed

\* the script's evaluation and the listener's call of fetch with the result
NextPath ==
    \/ EvalNavbarScript
    \/ DOMContentLoaded

SpecPath == InitPath /\ [][NextPath]_vars

----------------------------------------------------------------------------
(* The fallback's brand label over every document title: an empty          *)
(* placeholder on a page without markup of its own, the title drawn from   *)
(* AllTitles, the load when the fetch fails or the status is not 2xx       *)

InitTitle ==
    /\ NAVBAR_CONFIG \in {c \in Configs : c.HOMEPAGE_PATH = Auto}
    /\ pathname = <<"/", "a", "/", "a">>
    /\ title \in AllTitles
    /\ body = <<>>
    /\ placeholder = [exists |-> TRUE, innerHTML |-> <<>>]
    /\ NotLoaded
    /\ Collapsed

NextTitle ==
    \/ EvalNavbarScript
    \/ DOMContentLoaded
    \/ FetchSettles
    \/ ResponseHandler
    \/ CatchHandler

SpecTitle == InitTitle /\ [][NextTitle]_vars

----------------------------------------------------------------------------
(* The Menu Toggle on a page that carries its menu in its own markup: both *)
(* scripts have run, the loader found nothing to load, the handlers are    *)
(* bound; the panel's class and the toggler's attribute are as the markup  *)
(* has them                                                                *)

MenuPages == {d \in SeqsOver(ElementPool, MaxDocLen) :
                 HasPart(d, "navbar-toggler") /\ HasPart(d, "navbarNav")}

InitMenu ==
    /\ NAVBAR_CONFIG = [HOMEPAGE_PATH |-> Auto, SHOW_FALLBACK |-> TRUE]
    /\ pathname = <<"/">>
    /\ title = HomeTitle
    /\ HOMEPAGE_URL = getHomepagePath(NAVBAR_CONFIG, pathname)
    /\ body \in MenuPages
    /\ placeholder = [exists |-> FALSE, innerHTML |-> <<>>]
    /\ navbarScript = "registered"
    /\ domReady = TRUE
    /\ chain = "skipped"
    /\ response = NoResponse
    /\ html = <<>>
    /\ extraction = NoExtraction
    /\ error = NoError
    /\ console = <<>>
    /\ fetchLog = <<>>
    /\ writes = <<>>
    /\ timer = "none"
    /\ reinit = NoReinit
    /\ burgerScript = [state |-> "bound", burger |-> "body", navCollapse |-> "body",
                       injectedAtInit |-> FALSE]
    /\ show \in BOOLEAN
    /\ ariaExpanded \in {"none", "false", "true"}
    /\ display = ""
    /\ lastClick = NoClick
    /\ toggleRun = IF IsCollapsed(Menu) THEN 0 ELSE -1

NextMenu ==
    \/ ClickToggle
    \/ ClickLink
    \/ ClickElsewhere

SpecMenu == InitMenu /\ [][NextMenu]_vars

----------------------------------------------------------------------------
(* Properties *)

Range(f) == {f[i] : i \in DOMAIN f}

Logged(err) == \E i \in DOMAIN console : console[i].level = "error" /\ console[i].err = err

LoadFailures == {"http", "network", "selector"}

\* C1: per page load at most one of the success branch and showFallbackNavbar
\* writes the placeholder, whatever the fetch result and also when a statement
\* of the success handler throws after the assignment; and with the fallback
\* disabled a load that failed (fetch, status, selector) leaves the placeholder
\* unwritten.
C1_ExclusiveOutcome ==
    /\ ~("success" \in Range(writes) /\ "fallback" \in Range(writes))
    /\ Len(writes) <= 1
    /\ (chain = "caught" /\ ~NAVBAR_CONFIG.SHOW_FALLBACK /\ error.kind \in LoadFailures)
          => writes = <<>>

\* the placeholder is missing or holds a <nav> element
NothingToLoad ==
    \/ ~placeholder.exists
    \/ \E i \in DOMAIN placeholder.innerHTML : placeholder.innerHTML[i].tag = "nav"

\* C2: when the DOMContentLoaded handler runs and the placeholder is absent or
\* already holds a navigation subtree, the handler returns; from then on there is
\* no fetch, no write to the placeholder, no timer, no reinitialisation and no
\* event, and the placeholder keeps its content in every later step.
C2_IdempotencyGuard ==
    /\ [][(chain = "idle" /\ chain' # "idle" /\ NothingToLoad) => chain' = "skipped"]_vars
    /\ [][chain = "skipped" => (chain' = "skipped" /\ placeholder' = placeholder)]_vars
    /\ [](chain = "skipped" =>
             /\ fetchLog = <<>>
             /\ writes = <<>>
             /\ timer = "none"
             /\ reinit = NoReinit)

C2_Witness ==
    /\ chain = "skipped"
    /\ placeholder.exists
    /\ NothingToLoad
    /\ burgerScript.state # "pending"

\* C3: with the fallback enabled, a non-2xx response (the error carrying status
\* code and reason phrase), a rejected fetch and a document without a match for
\* the selector each reach the catch handler, are logged there, and leave the
\* fallback navigation as the placeholder's content.
C3_FailureGivesFallback ==
    /\ (chain \in {"reading", "html", "rejected", "caught", "fulfilled"}
            /\ response # NoResponse /\ (response.status < 200 \/ response.status > 299))
          => /\ chain \in {"rejected", "caught"}
             /\ error.kind = "http"
             /\ error.status = response.status
             /\ error.text = response.statusText
    /\ (chain = "caught" /\ NAVBAR_CONFIG.SHOW_FALLBACK /\ error.kind \in LoadFailures)
          => /\ Logged(error)
             /\ Len(placeholder.innerHTML) = 1
             /\ placeholder.innerHTML[1].kids
                   = <<"navbar-brand", "Navigation temporarily unavailable">>
             /\ writes[Len(writes)] = "fallback"

C3_Witness ==
    /\ chain = "caught"
    /\ NAVBAR_CONFIG.SHOW_FALLBACK
    /\ error.kind = "http"
    /\ error.status = 404
    /\ error.text = "Not Found"
    /\ writes = <<"fallback">>

\* C4: with the fallback disabled, a failure of the fetch, the status check or
\* the selector search is only logged: the catch handler leaves the placeholder
\* as it was before the load, and nothing has written it.
C4_FailureWithoutFallback ==
    /\ [][(chain = "rejected" /\ ~NAVBAR_CONFIG.SHOW_FALLBACK /\ error.kind \in LoadFailures)
             => placeholder' = placeholder]_vars
    /\ []((chain = "caught" /\ ~NAVBAR_CONFIG.SHOW_FALLBACK /\ error.kind \in LoadFailures)
             => /\ Logged(error)
                /\ writes = <<>>
                /\ placeholder \in Placeholders
                /\ ~NothingToLoad)

C4_Witness ==
    /\ chain = "caught"
    /\ ~NAVBAR_CONFIG.SHOW_FALLBACK
    /\ error.kind = "selector"
    /\ placeholder.innerHTML = <<>>

Odd(n) == n % 2 = 1

\* C5 as stated: a click on the toggle control, once every handler of the click
\* has run, takes collapsed to expanded (class present, attribute "true") and
\* expanded to collapsed (class absent, attribute "false"); after n toggle clicks
\* in a row from collapsed the menu is expanded iff n is odd.
C5_ToggleAlternates ==
    lastClick.part = "navbar-toggler" =>
        /\ IsCollapsed(lastClick.before) => (show /\ ariaExpanded = "true")
        /\ IsExpanded(lastClick.before) => (~show /\ ariaExpanded = "false")
        /\ toggleRun >= 0 => (IsExpanded(Menu) <=> Odd(toggleRun))

\* C5 amended: the same, for a toggle control that lies inside the first .navbar
\* element of the document, the one the outside-click handler takes as the
\* navigation container.
C5_ToggleAlternatesInsideNavbar ==
    (lastClick.part = "navbar-toggler" /\ NavbarAt # 0 /\ BurgerAt = NavbarAt) =>
        /\ IsCollapsed(lastClick.before) => (show /\ ariaExpanded = "true")
        /\ IsExpanded(lastClick.before) => (~show /\ ariaExpanded = "false")
        /\ toggleRun >= 0 => (IsExpanded(Menu) <=> Odd(toggleRun))
        /\ toggleRun >= 0 => (IsCollapsed(Menu) <=> ~Odd(toggleRun))

C5_Witness ==
    /\ lastClick.part = "navbar-toggler"
    /\ NavbarAt # 0
    /\ BurgerAt = NavbarAt
    /\ toggleRun = 3
    /\ show
    /\ ariaExpanded = "true"

\* C6: after a click on a navigation link, from either state, the visibility
\* class is absent and the state attribute is "false".
C6_LinkCollapses ==
    lastClick.part = "nav-link" => (~show /\ ariaExpanded = "false")

C6_Witness ==
    /\ lastClick.part = "nav-link"
    /\ IsExpanded(lastClick.before)
    /\ ~show
    /\ ariaExpanded = "false"

\* C7 as stated: while expanded, a click outside the navigation container
\* collapses the menu and a click inside it leaves the menu expanded; while
\* collapsed, an outside click changes nothing.
C7_OutsideClick ==
    (lastClick.part # "none" /\ NavbarAt # 0) =>
        /\ (IsExpanded(lastClick.before) /\ ~lastClick.inNavbar)
              => (~show /\ ariaExpanded = "false")
        /\ (IsExpanded(lastClick.before) /\ lastClick.inNavbar) => IsExpanded(Menu)
        /\ (IsCollapsed(lastClick.before) /\ ~lastClick.inNavbar) => Menu = lastClick.before

\* C7 amended: the same, for a click whose target is neither the toggle control
\* nor a navigation link, so that the document's handler is the only one to run.
C7_OutsideClickAlone ==
    (lastClick.part = "other" /\ NavbarAt # 0) =>
        /\ (IsExpanded(lastClick.before) /\ ~lastClick.inNavbar)
              => (~show /\ ariaExpanded = "false")
        /\ (IsExpanded(lastClick.before) /\ lastClick.inNavbar) => IsExpanded(Menu)
        /\ (IsCollapsed(lastClick.before) /\ ~lastClick.inNavbar) => Menu = lastClick.before

C7_Witness ==
    /\ lastClick.part = "other"
    /\ lastClick.inNavbar
    /\ IsExpanded(lastClick.before)
    /\ IsExpanded(Menu)

\* the separators of the path that stand before its last one
DirDepth(path) ==
    Cardinality({i \in DOMAIN path :
                    path[i] = "/" /\ \E j \in DOMAIN path : j > i /\ path[j] = "/"})

\* C8: with the homepage path set to auto, HOMEPAGE_URL is max(N, 1) times "../"
\* followed by "index.html", N being the number of separators left once the final
\* segment of the pathname is stripped.
C8_DepthToPath ==
    (navbarScript = "registered" /\ NAVBAR_CONFIG.HOMEPAGE_PATH = Auto) =>
        LET n == IF DirDepth(pathname) >= 1 THEN DirDepth(pathname) ELSE 1
        IN  /\ Len(HOMEPAGE_URL) = n + 1
            /\ \A i \in 1..n : HOMEPAGE_URL[i] = "../"
            /\ HOMEPAGE_URL[n + 1] = "index.html"

\* /services/sub/page.html: two directories deep
C8_Witness ==
    /\ navbarScript = "registered"
    /\ NAVBAR_CONFIG.HOMEPAGE_PATH = Auto
    /\ pathname = <<"/", "a", "/", "a", "/", "a">>
    /\ HOMEPAGE_URL = <<"../", "../", "index.html">>

\* C9: whatever subset of the probes throws, every other probe whose framework
\* is present still runs and the navbarLoaded event is still dispatched.
C9_ProbesIndependent ==
    reinit.ran =>
        /\ \A p \in Probes :
              Applies(p, placeholder, reinit.present) => p \in reinit.attempted
        /\ NavbarLoadedEvent \in Range(reinit.events)

\* the page gets its navigation from the loader: none of its own, and a
\* placeholder that the guard lets through
LoaderSuppliesNavigation ==
    /\ body = <<>>
    /\ placeholder.exists
    /\ (chain = "idle" => ~NothingToLoad)
    /\ chain # "skipped"

\* C10: on a page whose navigation the loader supplies, the Menu Toggle
\* initialises only when the injected navigation is already in the document.
C10_ToggleAfterInjection ==
    (LoaderSuppliesNavigation /\ burgerScript.state # "pending")
        => burgerScript.injectedAtInit

\* the success handler returned normally: the navigation is injected and the
\* reinitialisation is scheduled
InjectionSucceeded == chain = "fulfilled"

\* C11: after every successful injection the navbarLoaded event is dispatched
\* from the placeholder, bubbling, the placeholder as its detail container, after
\* the injection and as the last thing the reinitialisation of that load does:
\* once the timer callback of a successful injection has run, the event is the
\* last of what it dispatched.
C11_NavbarLoadedDispatched ==
    /\ (InjectionSucceeded /\ timer = "fired") =>
          /\ reinit.ran
          /\ reinit.events # <<>>
          /\ reinit.events[Len(reinit.events)] = NavbarLoadedEvent
    /\ (NavbarLoadedEvent \in Range(reinit.events)) =>
          /\ Injected
          /\ NavbarLoadedEvent.bubbles
          /\ NavbarLoadedEvent.target = "navbar-placeholder"
          /\ NavbarLoadedEvent.detail = "navbar-placeholder"

\* C12: a page load issues at most one GET, to the resolved homepage path:
\* exactly one when the DOMContentLoaded handler passes the guard, none when it
\* returns at the guard, and once the handler has run no outcome of the load
\* (status, network, selector) adds a request.
C12_SingleRequest ==
    /\ [](Len(fetchLog) <= 1)
    /\ [](\A i \in DOMAIN fetchLog :
             fetchLog[i] = getHomepagePath(NAVBAR_CONFIG, pathname))
    /\ [](chain = "idle" => fetchLog = <<>>)
    /\ [][(chain = "idle" /\ chain' # "idle") =>
             Len(fetchLog') = IF NothingToLoad THEN 0 ELSE 1]_vars
    /\ [][chain # "idle" => fetchLog' = fetchLog]_vars

\* a 404 was caught and the one request is all there was
C12_Witness ==
    /\ chain = "caught"
    /\ error.kind = "http"
    /\ Len(fetchLog) = 1
    /\ fetchLog[1] = HOMEPAGE_URL

\* the fallback is what the placeholder holds
FallbackShown == writes # <<>> /\ writes[Len(writes)] = "fallback"

\* C13: for every document title the brand label that the fallback renders is
\* the text that stands before the first '-' of the title, without the
\* whitespace around it, and the default label when nothing is left of that
\* text; which failure of the load brought the fallback makes no difference.
C13_FallbackLabel ==
    FallbackShown =>
        LET label == placeholder.innerHTML[1].brand
            n == CHOOSE k \in 0..Len(title) :
                     /\ \A i \in 1..k : title[i] # "-"
                     /\ k = Len(title) \/ title[k + 1] = "-"
            before == SubSeq(title, 1, n)
        IN  IF \A i \in 1..n : before[i] = " "
            THEN label = <<"Site">>
            ELSE /\ label # <<>>
                 /\ label[1] # " "
                 /\ label[Len(label)] # " "
                 /\ \E a, b \in 0..n :
                       before = Repeat(" ", a) \o label \o Repeat(" ", b)

\* C14: when the fetched document holds an element matching nav.navbar, the
\* success handler leaves in the placeholder that element whole (tag, attributes,
\* descendants), the first such in document order, and nothing else of the
\* document.
C14_SelectorExtraction ==
    [][(chain = "html" /\ chain' # "html"
           /\ \E i \in DOMAIN html : html[i].tag = "nav" /\ "navbar" \in html[i].cls) =>
          LET hits == {i \in DOMAIN html : html[i].tag = "nav" /\ "navbar" \in html[i].cls}
              k == CHOOSE i \in hits : \A j \in hits : i <= j
          IN  /\ Len(placeholder'.innerHTML) = 1
              /\ placeholder'.innerHTML[1] = html[k]
              /\ extraction' = [first |-> k, len |-> Len(html)]]_vars

\* the matching element stood second in the fetched document, after other
\* markup, and it alone is in the placeholder
C14_Witness ==
    /\ InjectionSucceeded
    /\ extraction = [first |-> 2, len |-> 2]
    /\ placeholder.innerHTML = <<NavMain>>

\* the page load with what the event loop guarantees: a settled promise's
\* callbacks run, a scheduled timer fires; and the fetch and the reading of the
\* body settle
FairSpec ==
    /\ Spec
    /\ WF_vars(FetchSettles)
    /\ WF_vars(TextSettles)
    /\ WF_vars(ResponseHandler)
    /\ WF_vars(SuccessHandler)
    /\ WF_vars(CatchHandler)
    /\ WF_vars(TimerFires)

\* the load passed the guard and its promise chain has not ended
LoadPending == chain \in {"fetching", "response", "reading", "html", "rejected"}

\* successful injection, fallback injection, or logged failure without fallback
LoadEnded ==
    \/ chain = "fulfilled" /\ Injected
    \/ chain = "caught" /\ NAVBAR_CONFIG.SHOW_FALLBACK /\ FallbackShown
    \/ chain = "caught" /\ ~NAVBAR_CONFIG.SHOW_FALLBACK /\ Logged(error)

\* C15: a load that passed the guard ends, the fetch settling, in a successful
\* injection, a fallback injection or a logged failure without fallback; while
\* the fetch has not settled the load is pending, nothing is written to the
\* placeholder, and only the settling of the fetch moves the load on.
C15_LoadTerminates ==
    /\ LoadPending ~> LoadEnded
    /\ [](chain = "fetching" => (writes = <<>> /\ ~NothingToLoad /\ ~LoadEnded))
    /\ [][chain = "fetching" =>
             /\ placeholder' = placeholder
             /\ chain' \in {"fetching", "response", "rejected"}
             /\ (chain' = "rejected" => error'.kind = "network")]_vars

\* a load that came to its end by the fallback
C15_Witness ==
    /\ LoadEnded
    /\ chain = "caught"
    /\ error.kind = "network"
    /\ FallbackShown

\* C16: reinitializeFrameworkComponents runs in a later step than the injection,
\* only from the timer that the success handler scheduled and only when that
\* timer fires, once per load, on the placeholder; and after a successful
\* injection it does run: the timer is scheduled by then and does not stay
\* scheduled.
C16_ReinitDeferredOnce ==
    /\ [][writes' # writes => (reinit' = reinit /\ ~reinit.ran)]_vars
    /\ [][reinit' # reinit =>
             /\ InjectionSucceeded /\ Injected
             /\ timer = "scheduled" /\ timer' = "fired"
             /\ ~reinit.ran /\ reinit'.ran
             /\ \A p \in reinit'.attempted : Applies(p, placeholder, reinit'.present)
             /\ \A i \in DOMAIN reinit'.events :
                   reinit'.events[i].target = "navbar-placeholder"]_vars
    /\ [][timer = "fired" => (timer' = "fired" /\ reinit' = reinit)]_vars
    /\ [](reinit.ran <=> timer = "fired")
    /\ [](InjectionSucceeded => timer \in {"scheduled", "fired"})
    /\ <>[](timer # "scheduled")

\* the navbar is injected, the timer has fired and the function has run
C16_Witness ==
    /\ InjectionSucceeded
    /\ timer = "fired"
    /\ reinit.ran
    /\ "dropdown" \in reinit.attempted

\* the navbar is injected and the function has not run yet
C16_WitnessDeferred ==
    /\ InjectionSucceeded
    /\ timer = "scheduled"
    /\ ~reinit.ran

\* the class on the panel and the attribute on the toggle control say the same
ToggleStateAgrees == show <=> (ariaExpanded = "true")

\* C17: from a start where the panel lacks the class 'show' and aria-expanded is
\* not "true", after any sequence of clicks on the toggle control, on links,
\* inside and outside the navigation, the panel has the class exactly when the
\* attribute is "true".
C17_ToggleStateAgrees ==
    (~show /\ ariaExpanded # "true") => [](ToggleStateAgrees)

\* two toggle clicks in a row from a collapsed state: expanded in between,
\* collapsed now, class and attribute in step
C17_Witness ==
    /\ lastClick.part = "navbar-toggler"
    /\ IsExpanded(lastClick.before)
    /\ toggleRun = 2
    /\ ToggleStateAgrees
    /\ ~show

\* C18: a click on the toggle control runs the toggle handler and then, bubbling,
\* the document handler; when the toggle control lies inside the first .navbar
\* element of the document the document handler leaves what the toggle handler
\* did, so a click that expands the menu leaves it expanded.
C18_BubblingKeepsToggle ==
    (lastClick.part = "navbar-toggler" /\ lastClick.inNavbar) =>
        /\ ~lastClick.threw
        /\ Menu = BurgerHandler(lastClick.before)
        /\ lastClick.before.aria # "true" =>
              (show /\ ariaExpanded = "true" /\ display = "block")

\* the click expanded a collapsed menu and the menu is expanded
C18_Witness ==
    /\ lastClick.part = "navbar-toggler"
    /\ lastClick.inNavbar
    /\ IsCollapsed(lastClick.before)
    /\ lastClick.before.display = ""
    /\ IsExpanded(Menu)
    /\ display = "block"

\* C19: in a load that ends in the catch handler, with the fallback shown or
\* with the failure logged and the fallback disabled, no reinitialisation is
\* scheduled, reinitializeFrameworkComponents does not run and no navbarLoaded
\* event is dispatched, then or later.
C19_SuccessPathOnly ==
    /\ [](chain \in {"rejected", "caught"} =>
             /\ timer = "none"
             /\ ~reinit.ran
             /\ NavbarLoadedEvent \notin Range(reinit.events))
    /\ [][chain = "caught" => (chain' = "caught" /\ timer' = timer /\ reinit' = reinit)]_vars
    /\ [](reinit.ran => chain = "fulfilled")

\* the selector matched nothing, the fallback is shown, nothing is scheduled
C19_Witness ==
    /\ chain = "caught"
    /\ error.kind = "selector"
    /\ FallbackShown
    /\ timer = "none"
    /\ burgerScript.state # "pending"

\* C20: the toggle handler, expanding, sets the panel's inline display to block;
\* no other click (a toggle click that collapses, a link click, a click
\* outside or inside the navigation) changes the inline display; so once it is block it is block in every later
\* state, the collapsed ones included.
C20_DisplayStaysBlock ==
    /\ []((lastClick.part = "navbar-toggler" /\ lastClick.before.aria # "true")
             => display = "block")
    /\ [][(lastClick'.part # "navbar-toggler" \/ ariaExpanded = "true")
             => display' = display]_vars
    /\ [][display = "block" => display' = "block"]_vars

\* expanded by the toggle control, collapsed by a link: display is still block
C20_Witness ==
    /\ lastClick.part = "nav-link"
    /\ IsExpanded(lastClick.before)
    /\ lastClick.before.display = "block"
    /\ IsCollapsed(Menu)
    /\ display = "block"

\* C21: with the homepage path set to auto, for every pathname the path that
\* getHomepagePath returns, resolved against the directory of the page ('..'
\* at the root staying at the root), is /index.html; and that is what the
\* loader requests.
C21_AutoPathIsRootIndex ==
    (navbarScript = "registered" /\ NAVBAR_CONFIG.HOMEPAGE_PATH = Auto) =>
        /\ ResolveURL(HOMEPAGE_URL, pathname) = <<"/", "index.html">>
        /\ \A i \in DOMAIN fetchLog :
              ResolveURL(fetchLog[i], pathname) = <<"/", "index.html">>

\* a page three directories deep, one of them with an empty name: three steps
\* up from /a//a/ reach the root
C21_Witness ==
    /\ NAVBAR_CONFIG.HOMEPAGE_PATH = Auto
    /\ pathname = <<"/", "a", "/", "/", "a", "/">>
    /\ fetchLog = <<HOMEPAGE_URL>>
    /\ HOMEPAGE_URL = <<"../", "../", "../", "index.html">>
    /\ ParentDir(DirOf(pathname)) = <<"/", "a", "/", "/">>

====
